---------------------------- MODULE Spec2Model ----------------------------
(***************************************************************************)
(* gpg_secretstore: a pass-compatible store of GPG-encrypted secrets.      *)
(* Every invocation of the module (main) is one process: it takes the      *)
(* per-slug file lock, reads the envelope, decides a branch, writes or     *)
(* removes the envelope and leaves the lock.  The recipient declarations   *)
(* (.gpg-id files) are edited from outside, at any time, without the lock. *)
(***************************************************************************)
EXTENDS Naturals, FiniteSets, TLC

\* ------------------------------------------------------------- bounds
\* Processes that run the module at the same time; each runs it again and
\* again.
NumProcs == 2

\* ------------------------------------------------------------ universe
Procs == 1 .. NumProcs
NoProc == 0

\* The slug "a/x" lies in the directory "a" of the store root.
Slugs == {"a/x"}
Dirs == {"root", "a"}

\* The directories from the slug's own directory up to the store root.
Ancestry(slug) == IF slug = "a/x" THEN {"a", "root"} ELSE {"root"}

\* The nearest directory of the slug first.
Nearest(slug) == IF slug = "a/x" THEN "a" ELSE "root"

\* NoFile: the directory has no .gpg-id file.  The root's file, when there,
\* declares A and B; the file of "a", when there, declares A and C.
NoFile == {}
Declarable(d) == IF d = "root" THEN {{"A", "B"}, NoFile} ELSE {{"A", "C"}, NoFile}

States == {"present", "absent"}
\* data_type: "yaml" behaves as "json" does (a structured type) and is left out.
DataTypes == {"plain", "json"}
SecretTypes == {"random", "binary", "user_supplied"}
Texts == {"v1", "v2"}

\* A text value: txt quoted q times.  json.dumps quotes a text once more,
\* json.loads takes one quoting away and rejects a text that carries none.
Val(t, q) == [txt |-> t, q |-> q]
\* result["secret"] = "" of the initial result.
EmptySecret == Val("", 0)
\* Python's None.
NoneSecret == Val("None", 0)

NoEnv == [exists |-> FALSE, rcpt |-> {}, data |-> EmptySecret]
Env(r, d) == [exists |-> TRUE, rcpt |-> r, data |-> d]

\* The outcome of a call: the exception it raised, or "none" and its value.
Ok(v) == [exc |-> "none", val |-> v]
Raise(e) == [exc |-> e, val |-> EmptySecret]
RaiseSet(e) == [exc |-> e, val |-> {}]

VARIABLES
  gpgid,    \* directory -> declared recipient set, or NoFile
  store,    \* slug -> envelope on disk
  lock,     \* lock file -> the process holding it
  pc,       \* process -> where it is in main
  req,      \* process -> module.params of its invocation
  result,   \* process -> the result dict
  raised,   \* process -> the exception that left the locked section
  h,        \* process -> history of the invocation (not program state)
  last      \* slug -> the last invocation that left the lock (history)

vars == <<gpgid, store, lock, pc, req, result, raised, h, last>>


\* ------------------------------------------------- Path Resolver / lock
\* hashlib.md5(password_slug.encode()).hexdigest(): a function of the slug
\* string alone, the same in every process.
Md5(slug) == IF slug = "x" THEN "9dd4e461268c8034f5c8564e155c67a6"
             ELSE "e2d645f7ae8e44add7bcb2494c6e0ef8"

\* Path("/tmp/") / md5(slug): the lock file of a slug.
LockFile(slug) == <<"/tmp", Md5(slug)>>

LockFiles == {LockFile(s) : s \in Slugs}

\* ---------------------------------------------------- Recipient Resolver
\* store.get_recipients(slug): the nearest ancestor's .gpg-id wins.
GetRecipients(g, slug) ==
  LET d == Nearest(slug) IN
  IF g[d] # NoFile THEN [exc |-> "none", val |-> g[d]]
  ELSE IF "root" \in Ancestry(slug) /\ g["root"] # NoFile
       THEN [exc |-> "none", val |-> g["root"]]
       ELSE RaiseSet("NoRecipientsFound")

\* ---------------------------------------------------------- Payload Codec
\* encode(value, data_type): plain passes the text through, json quotes it.
Encode(v, dtype) == IF dtype = "plain" THEN v ELSE Val(v.txt, v.q + 1)

\* decode(bytes, data_type): plain passes through; json parses a quoted text
\* and fails on a bare one.
Decode(b, dtype) ==
  IF dtype = "plain" THEN Ok(b)
  ELSE IF b.q > 0 THEN Ok(Val(b.txt, b.q - 1))
       ELSE Raise("PayloadParseError")

\* ------------------------------------------------------ Secret Store Engine
\* store.get_recipients_from_encrypted_file(slug): the key ids of the
\* envelope's public packet headers.
GetRecipientsFromEncryptedFile(st, slug) ==
  IF ~st[slug].exists THEN RaiseSet("FileNotFoundError")
  ELSE [exc |-> "none", val |-> st[slug].rcpt]

\* store.get(slug, data_type, check_recipients=True)
Get(st, g, slug, dtype, check_recipients) ==
  LET act == GetRecipientsFromEncryptedFile(st, slug)
      dec == GetRecipients(g, slug)
  IN IF act.exc # "none" THEN Raise(act.exc)
     ELSE IF check_recipients /\ dec.exc # "none" THEN Raise(dec.exc)
     ELSE IF check_recipients /\ dec.val # act.val
          THEN Raise("RecipientsMismatchError")
     ELSE Decode(st[slug].data, dtype)

\* store.put(slug, data, data_type): [exc, st], the store after the call.
\* None is no payload: encryption rejects it.
Put(st, g, slug, data, dtype) ==
  LET dec == GetRecipients(g, slug) IN
  IF dec.exc # "none" THEN [exc |-> dec.exc, st |-> st]
  ELSE IF data = NoneSecret THEN [exc |-> "EncryptionFailed", st |-> st]
  ELSE [exc |-> "none",
        st |-> [st EXCEPT ![slug] = Env(dec.val, Encode(data, dtype))]]

\* store.remove(slug)
Remove(st, slug) ==
  IF ~st[slug].exists THEN [exc |-> "FileNotFoundError", st |-> st]
  ELSE [exc |-> "none", st |-> [st EXCEPT ![slug] = NoEnv]]

\* --------------------------------------------------------- Secret Generator
\* What the world hands the generator: the random draw or the command's
\* standard output ("fail": the pattern matches no character, or the command
\* exits non-zero; "missing": the command's executable does not exist), and
\* user_supplied_secret ("None": not given).
Draws == Texts \cup {"fail", "missing"}
UserInputs == Texts \cup {"None"}

RandomSecret(draw) ==
  IF draw \in Texts THEN Ok(Val(draw, 0)) ELSE Raise("IndexError")

\* subprocess.run(binary, check=True)
BinarySecret(draw) ==
  IF draw \in Texts THEN Ok(Val(draw, 0))
  ELSE IF draw = "missing" THEN Raise("FileNotFoundError")
  ELSE Raise("CalledProcessError")

UserSuppliedSecret(user) == Ok(Val(user, 0))

\* What a failing generator raises: random.choices on an empty alphabet,
\* subprocess.run on a failing or missing binary.
GenErrors == {"IndexError", "CalledProcessError", "FileNotFoundError"}

GetSecret(stype, draw, user) ==
  IF stype = "random" THEN RandomSecret(draw)
  ELSE IF stype = "binary" THEN BinarySecret(draw)
  ELSE UserSuppliedSecret(user)

\* The generator runs that differ in their outcome: secret_type, the draw,
\* user_supplied_secret.  An input the secret_type does not read is fixed.
GenRuns ==
  {r \in SecretTypes \X Draws \X UserInputs :
     \/ r[1] = "random" /\ r[2] # "missing" /\ r[3] = "None"
     \/ r[1] = "binary" /\ r[2] # "v2" /\ r[3] = "None"
     \/ r[1] = "user_supplied" /\ r[2] = "v1" /\ r[3] # "v1"}

\* ------------------------------------------------------------------- main
NoReq == [slug |-> "a/x", state |-> "absent", overwrite |-> FALSE,
          check |-> FALSE, dtype |-> "plain"]

\* result = dict(changed=False, warning="", secret="", diff={before: [],
\* after: []}); the key "action" is not set yet.
InitResult == [changed |-> FALSE, action |-> "none", secret |-> EmptySecret,
               before |-> {}, after |-> {}, warning |-> FALSE]

\* What a run of branch code leaves: the exception that escapes it, the
\* result dict, the store, and whether the generator was called.
Out(e, r, st, gens) == [exc |-> e, res |-> r, st |-> st, gens |-> gens]

\* The envelope is created, empty, before the secret is generated.
OnNotFoundPutsFirst(r, st, g, slug, gen) ==
  LET dec == GetRecipients(g, slug)
      w == Put(st, g, slug, EmptySecret, "plain")
  IN IF gen.exc # "none" THEN Out(gen.exc, r, w.st, 1)
     ELSE IF dec.exc # "none"
          THEN Out(dec.exc, [r EXCEPT !.secret = gen.val, !.before = {}], st, 1)
          ELSE Out("none", [r EXCEPT !.secret = gen.val, !.before = {},
                                     !.after = dec.val, !.action = "add",
                                     !.changed = TRUE], st, 1)

\* except FileNotFoundError: generate, report the declared recipients, "add".
OnNotFound(r, st, g, slug, gen) ==
  LET dec == GetRecipients(g, slug) IN
  IF gen.exc # "none" THEN Out(gen.exc, r, st, 1)
  ELSE IF dec.exc # "none"
       THEN Out(dec.exc, [r EXCEPT !.secret = gen.val, !.before = {}], st, 1)
       ELSE Out("none", [r EXCEPT !.secret = gen.val, !.before = {},
                                  !.after = dec.val, !.action = "add",
                                  !.changed = TRUE], st, 1)

\* The handler decrypts with the recipient check still on.
OnMismatchChecked(r, st, g, slug, dtype) ==
  Out(Get(st, g, slug, dtype, TRUE).exc, [r EXCEPT !.warning = TRUE], st, 0)

\* The handler warns and decrypts, and forgets changed = True.
OnMismatchKeeps(r, st, g, slug, dtype) ==
  LET s == Get(st, g, slug, dtype, FALSE) IN
  IF s.exc # "none" THEN Out(s.exc, [r EXCEPT !.warning = TRUE], st, 0)
  ELSE Out("none", [r EXCEPT !.warning = TRUE, !.secret = s.val,
                             !.after = r.before], st, 0)

\* except RecipientsMismatchError: decrypt without the check, report the
\* envelope's and the declared recipients, "update".
OnMismatch(r, st, g, slug, dtype) ==
  LET s == Get(st, g, slug, dtype, FALSE)
      act == GetRecipientsFromEncryptedFile(st, slug)
      dec == GetRecipients(g, slug)
      r1 == [r EXCEPT !.warning = TRUE]
  IN IF s.exc # "none" THEN Out(s.exc, r1, st, 0)
     ELSE IF act.exc # "none" THEN Out(act.exc, r1, st, 0)
     ELSE IF dec.exc # "none" THEN Out(dec.exc, r1, st, 0)
     ELSE Out("none", [r1 EXCEPT !.secret = s.val, !.before = act.val,
                                 !.after = dec.val, !.action = "update",
                                 !.changed = TRUE], st, 0)

\* The stored secret is returned as decrypted, data_type ignored.
OnKeepRaw(r, st, g, slug, dtype) ==
  LET s == Get(st, g, slug, "plain", TRUE) IN
  IF s.exc # "none" THEN Out(s.exc, r, st, 0)
  ELSE Out("none", [r EXCEPT !.secret = s.val, !.changed = FALSE,
                             !.after = r.before], st, 0)

\* if not overwrite: the stored secret, unchanged.
OnKeep(r, st, g, slug, dtype) ==
  LET s == Get(st, g, slug, dtype, TRUE) IN
  IF s.exc # "none" THEN Out(s.exc, r, st, 0)
  ELSE Out("none", [r EXCEPT !.secret = s.val, !.changed = FALSE,
                             !.after = r.before], st, 0)

\* else: secret rotation, "update".
OnOverwrite(r, st, gen) ==
  IF gen.exc # "none" THEN Out(gen.exc, r, st, 1)
  ELSE Out("none", [r EXCEPT !.secret = gen.val, !.action = "update",
                             !.changed = TRUE, !.after = r.before], st, 1)

\* The stored secret is read, recipients checked, before overwrite is
\* looked at: a mismatch is reconciled instead of overwritten.
PresentReadChecksFirst(r, st, g, rq, gen) ==
  LET act == GetRecipientsFromEncryptedFile(st, rq.slug)
      r1 == [r EXCEPT !.before = act.val]
      keep == OnKeep(r1, st, g, rq.slug, rq.dtype)
      body == IF act.exc # "none" THEN Out(act.exc, r, st, 0)
              ELSE IF ~rq.overwrite \/ keep.exc # "none" THEN keep
              ELSE OnOverwrite(r1, st, gen)
      handler == IF body.exc = "FileNotFoundError"
                 THEN OnNotFound(body.res, st, g, rq.slug, gen)
                 ELSE OnMismatch(body.res, st, g, rq.slug, rq.dtype)
  IN IF body.exc \in {"FileNotFoundError", "RecipientsMismatchError"}
     THEN [handler EXCEPT !.gens = body.gens + handler.gens]
     ELSE body

\* if state == "present": the try statement and its two handlers.
PresentRead(r, st, g, rq, gen) ==
  LET act == GetRecipientsFromEncryptedFile(st, rq.slug)
      r1 == [r EXCEPT !.before = act.val]
      body == IF act.exc # "none" THEN Out(act.exc, r, st, 0)
              ELSE IF ~rq.overwrite THEN OnKeep(r1, st, g, rq.slug, rq.dtype)
              ELSE OnOverwrite(r1, st, gen)
      handler == IF body.exc = "FileNotFoundError"
                 THEN OnNotFound(body.res, st, g, rq.slug, gen)
                 ELSE OnMismatch(body.res, st, g, rq.slug, rq.dtype)
  IN IF body.exc \in {"FileNotFoundError", "RecipientsMismatchError"}
     THEN [handler EXCEPT !.gens = body.gens + handler.gens]
     ELSE body

\* The write is not kept from check mode.
NeedsWriteInCheckMode(r, rq) == r.changed

\* if result["changed"] and not module.check_mode
NeedsWrite(r, rq) == r.changed /\ ~rq.check

\* store.put without the data type: the secret is stored as it is returned.
PresentWritePlain(r, st, g, rq) ==
  LET w == Put(st, g, rq.slug, r.secret, "plain")
      act == GetRecipientsFromEncryptedFile(w.st, rq.slug)
  IN IF w.exc # "none" THEN Out(w.exc, r, w.st, 0)
     ELSE IF act.exc # "none" THEN Out(act.exc, r, w.st, 0)
     ELSE Out("none", [r EXCEPT !.after = act.val], w.st, 0)

\* store.put(...), recipients-after left as the read step reported them.
PresentWriteNoReread(r, st, g, rq) ==
  LET w == Put(st, g, rq.slug, r.secret, rq.dtype) IN
  Out(w.exc, r, w.st, 0)

\* store.put(...), then recipients-after re-read from the envelope.
PresentWrite(r, st, g, rq) ==
  LET w == Put(st, g, rq.slug, r.secret, rq.dtype)
      act == GetRecipientsFromEncryptedFile(w.st, rq.slug)
  IN IF w.exc # "none" THEN Out(w.exc, r, w.st, 0)
     ELSE IF act.exc # "none" THEN Out(act.exc, r, w.st, 0)
     ELSE Out("none", [r EXCEPT !.after = act.val], w.st, 0)

\* The handler reports the removal the try block had begun to report.
OnDidntExistRemoved(r, st) ==
  Out("none", [r EXCEPT !.before = {}, !.after = {}, !.action = "remove",
                        !.changed = TRUE], st, 0)

\* except FileNotFoundError of the absent branch.
OnDidntExist(r, st) ==
  Out("none", [r EXCEPT !.before = {}, !.after = {}, !.changed = FALSE], st, 0)

\* if state == "absent": get (check mode) or remove, then the report.
Absent(r, st, g, rq) ==
  LET first == IF rq.check
               THEN [exc |-> Get(st, g, rq.slug, rq.dtype, TRUE).exc, st |-> st]
               ELSE Remove(st, rq.slug)
      act == GetRecipientsFromEncryptedFile(first.st, rq.slug)
      body == IF first.exc # "none" THEN Out(first.exc, r, first.st, 0)
              ELSE IF act.exc # "none" THEN Out(act.exc, r, first.st, 0)
              ELSE Out("none", [r EXCEPT !.before = act.val, !.after = {},
                                         !.action = "remove",
                                         !.changed = TRUE], first.st, 0)
  IN IF body.exc = "FileNotFoundError" THEN OnDidntExist(body.res, body.st)
     ELSE body


\* ---------------------------------------------------------------- history
\* What is remembered of the invocation that last left the lock of a slug:
\* kind "add" when it was a present request outside check mode that added
\* the envelope, with its overwrite, data type and returned secret; kind
\* "noop" when it was an absent request that found no envelope; failed: an
\* exception ended it.
NoLast == [kind |-> "none", overwrite |-> FALSE, dtype |-> "plain",
           secret |-> EmptySecret, failed |-> FALSE]

\* over: an invocation on the same slug left the lock while this one was in
\* flight; env0: the envelope when it took the lock; view: the envelope as
\* it last read or left it; decl0: the declared recipients when the section
\* began, decl: when it last used the store ({}: none found); gens: calls of
\* the generator, gtype: its secret_type, gval: what it returned; wrote:
\* store.put returned.
NoHist == [over |-> FALSE, env0 |-> NoEnv, view |-> NoEnv, decl0 |-> {},
           decl |-> {}, gens |-> 0, gtype |-> "none", gval |-> EmptySecret,
           wrote |-> FALSE]

Requests == [slug : Slugs, state : States, overwrite : BOOLEAN,
             check : BOOLEAN, dtype : DataTypes]

InSection == {"locked", "write", "exit", "hung"}

\* What is remembered of process p's invocation when it leaves the lock.
LastOf(p) ==
  IF req[p].state = "present" /\ ~req[p].check /\ raised[p] = "none"
     /\ result[p].action = "add" /\ h[p].wrote
  THEN [kind |-> "add", overwrite |-> req[p].overwrite,
        dtype |-> req[p].dtype, secret |-> result[p].secret,
        failed |-> FALSE]
  ELSE IF req[p].state = "absent" /\ raised[p] = "none" /\ ~h[p].env0.exists
  THEN [NoLast EXCEPT !.kind = "noop"]
  ELSE [NoLast EXCEPT !.kind = "other", !.failed = (raised[p] # "none")]

\* ----------------------------------------------------------------- actions
Init ==
  /\ gpgid = [d \in Dirs |-> IF d = "root" THEN {"A", "B"} ELSE NoFile]
  /\ store = [s \in Slugs |-> NoEnv]
  /\ lock = [f \in LockFiles |-> NoProc]
  /\ pc = [p \in Procs |-> "idle"]
  /\ req = [p \in Procs |-> NoReq]
  /\ result = [p \in Procs |-> InitResult]
  /\ raised = [p \in Procs |-> "none"]
  /\ h = [p \in Procs |-> NoHist]
  /\ last = [s \in Slugs |-> NoLast]

\* The module is invoked: main up to the lock, which reads password_slug
\* alone; the other parameters are drawn where main first reads them.
Invoke(p) ==
  /\ pc[p] = "idle"
  /\ \E slug \in Slugs : req' = [req EXCEPT ![p] = [NoReq EXCEPT !.slug = slug]]
  /\ pc' = [pc EXCEPT ![p] = "waiting"]
  /\ UNCHANGED <<gpgid, store, lock, result, raised, h, last>>

\* A lock that excludes nobody.
CanAcquireAlways(p) == TRUE

\* FileLock.acquire: the lock file is free.
CanAcquire(p) == lock[LockFile(req[p].slug)] = NoProc

\* with lock: __enter__
Acquire(p) ==
  /\ pc[p] = "waiting"
  /\ CanAcquire(p)
  /\ lock' = [lock EXCEPT ![LockFile(req[p].slug)] = p]
  /\ pc' = [pc EXCEPT ![p] = "locked"]
  /\ h' = [h EXCEPT ![p].env0 = store[req[p].slug],
                    ![p].view = store[req[p].slug]]
  /\ UNCHANGED <<gpgid, store, req, result, raised, last>>

\* The declared recipients as a set, {} when none are found.
Declared(g, slug) ==
  IF GetRecipients(g, slug).exc = "none" THEN GetRecipients(g, slug).val ELSE {}

\* The locked section up to the write: the present branch's try statement,
\* or the whole absent branch.
Locked(p) ==
  /\ pc[p] = "locked"
  /\ \E rq \in {r \in Requests : r.slug = req[p].slug}, run \in GenRuns :
       LET gen == GetSecret(run[1], run[2], run[3])
           o == IF rq.state = "present"
                THEN PresentRead(result[p], store, gpgid, rq, gen)
                ELSE Absent(result[p], store, gpgid, rq)
       IN /\ req' = [req EXCEPT ![p] = rq]
          /\ result' = [result EXCEPT ![p] = o.res]
          /\ store' = o.st
          /\ raised' = [raised EXCEPT ![p] = o.exc]
          /\ h' = [h EXCEPT ![p].gens = o.gens,
                            ![p].gtype = IF o.gens > 0 THEN run[1] ELSE "none",
                            ![p].gval = IF o.gens > 0 THEN gen.val
                                        ELSE EmptySecret,
                            ![p].view = o.st[rq.slug],
                            ![p].decl0 = Declared(gpgid, rq.slug),
                            ![p].decl = Declared(gpgid, rq.slug)]
          /\ pc' = [pc EXCEPT ![p] =
                      IF o.exc = "none" /\ rq.state = "present"
                         /\ NeedsWrite(o.res, rq)
                      THEN "write" ELSE "exit"]
  /\ UNCHANGED <<gpgid, lock, last>>

\* store.put and the re-read of the recipients.
Write(p) ==
  /\ pc[p] = "write"
  /\ LET o == PresentWrite(result[p], store, gpgid, req[p])
     IN /\ result' = [result EXCEPT ![p] = o.res]
        /\ store' = o.st
        /\ raised' = [raised EXCEPT ![p] = o.exc]
        /\ h' = [h EXCEPT ![p].wrote = (o.exc = "none"),
                          ![p].view = o.st[req[p].slug],
                          ![p].decl = Declared(gpgid, req[p].slug)]
  /\ pc' = [pc EXCEPT ![p] = "exit"]
  /\ UNCHANGED <<gpgid, lock, req, last>>

\* The lock is released on the normal path alone.
LockAfterExitUnlessRaised(p) ==
  IF raised[p] = "none"
  THEN [lock EXCEPT ![LockFile(req[p].slug)] = NoProc]
  ELSE lock

\* with lock: __exit__ releases the lock, an exception pending or not.
LockAfterExit(p) == [lock EXCEPT ![LockFile(req[p].slug)] = NoProc]

\* The locked section is left; main returns (exit_json) or dies of the
\* exception, and the process is gone.
Exit(p) ==
  /\ pc[p] = "exit"
  /\ lock' = LockAfterExit(p)
  /\ pc' = [pc EXCEPT ![p] = "idle"]
  /\ last' = [last EXCEPT ![req[p].slug] = LastOf(p)]
  /\ req' = [req EXCEPT ![p] = NoReq]
  /\ result' = [result EXCEPT ![p] = InitResult]
  /\ raised' = [raised EXCEPT ![p] = "none"]
  /\ h' = [q \in Procs |->
             IF q = p THEN NoHist
             ELSE IF pc[q] # "idle" /\ req[q].slug = req[p].slug
                  THEN [h[q] EXCEPT !.over = TRUE]
                  ELSE h[q]]
  /\ UNCHANGED <<gpgid, store>>

\* A blocking call inside the locked section (gpg, or the command of
\* subprocess.run, which has no timeout) never returns.
Hang(p) ==
  /\ pc[p] = "locked"
  /\ pc' = [pc EXCEPT ![p] = "hung"]
  /\ UNCHANGED <<gpgid, store, lock, req, result, raised, h, last>>

\* Somebody edits, creates or deletes a .gpg-id file.
EditGpgId(d) ==
  /\ \E v \in Declarable(d) :
       /\ v # gpgid[d]
       /\ gpgid' = [gpgid EXCEPT ![d] = v]
  /\ UNCHANGED <<store, lock, pc, req, result, raised, h, last>>

Next ==
  \/ \E p \in Procs : Invoke(p)
  \/ \E p \in Procs : Acquire(p)
  \/ \E p \in Procs : Locked(p)
  \/ \E p \in Procs : Write(p)
  \/ \E p \in Procs : Exit(p)
  \/ \E p \in Procs : Hang(p)
  \/ \E d \in Dirs : EditGpgId(d)

Spec == Init /\ [][Next]_vars


\* Weak fairness of every step of main: a process that can take its next
\* step takes it.  Hang and the edits are not forced.
FairSpec ==
  Spec /\ \A p \in Procs :
            /\ WF_vars(Acquire(p)) /\ WF_vars(Locked(p))
            /\ WF_vars(Write(p)) /\ WF_vars(Exit(p))

\* The locked section run without interruption: [exc, res, st, gens].
RunMain(st, g, rq, gen) ==
  LET o == IF rq.state = "present" THEN PresentRead(InitResult, st, g, rq, gen)
           ELSE Absent(InitResult, st, g, rq)
      w == PresentWrite(o.res, o.st, g, rq)
  IN IF o.exc = "none" /\ rq.state = "present" /\ NeedsWrite(o.res, rq)
     THEN [w EXCEPT !.gens = o.gens]
     ELSE o

\* ------------------------------------------------------------------ claims
\* The locked section of p is over and its result complete; p still holds
\* the lock.
AtExit(p) == pc[p] = "exit"
Succeeded(p) == raised[p] = "none"
Present(p) == req[p].state = "present"
Slug(p) == req[p].slug


\* C1: mutual exclusion per slug.  Two processes inside the locked section
\* never have the same lock file, the lock file of a slug is held by the
\* process inside, and nobody else touches the envelope meanwhile: the
\* envelope on disk is the one the process inside last read or left.
C1_MutualExclusion ==
  /\ \A p, q \in Procs :
       (p # q /\ pc[p] \in InSection /\ pc[q] \in InSection)
         => LockFile(Slug(p)) # LockFile(Slug(q))
  /\ \A p \in Procs :
       pc[p] \in InSection
         => /\ lock[LockFile(Slug(p))] = p
            /\ store[Slug(p)] = h[p].view

\* One process is between its read and its write while another waits for
\* the lock of the same slug.
C1_Witness ==
  \E p, q \in Procs :
    /\ p # q /\ pc[p] = "write" /\ pc[q] = "waiting" /\ Slug(p) = Slug(q)
    /\ result[p].action = "add"

\* C2: of two simultaneous present requests (no check mode) for a slug
\* without envelope, the one that takes the lock second finds the envelope
\* the first one added: it does not add, it reports update when
\* overwrite=true, and unchanged without a write when overwrite=false and
\* the declared recipients are still those the envelope was encrypted for.
C2_OneAdd ==
  \A p \in Procs :
    (/\ AtExit(p) /\ Present(p) /\ ~req[p].check /\ Succeeded(p)
     /\ h[p].over /\ last[Slug(p)].kind = "add")
      => /\ h[p].env0.exists
         /\ result[p].action # "add"
         /\ req[p].overwrite
              => (result[p].action = "update" /\ result[p].changed)
         /\ (~req[p].overwrite /\ h[p].decl0 = h[p].env0.rcpt)
              => (/\ result[p].action = "none" /\ ~result[p].changed
                  /\ ~h[p].wrote)

\* The second of two simultaneous requests is through; the first had added.
C2_Witness ==
  \E p \in Procs :
    /\ AtExit(p) /\ Present(p) /\ ~req[p].check /\ Succeeded(p)
    /\ h[p].over /\ last[Slug(p)].kind = "add"
    /\ ~req[p].overwrite /\ result[p].action = "none"


\* C3: an absent request outside check mode on an existing envelope returns
\* changed=true with action remove and leaves no envelope.
C3_AbsentRemoves ==
  \A p \in Procs :
    (AtExit(p) /\ req[p].state = "absent" /\ ~req[p].check /\ h[p].env0.exists)
      => /\ Succeeded(p)
         /\ result[p].changed /\ result[p].action = "remove"
         /\ ~store[Slug(p)].exists

\* C4: present without overwrite is idempotent.  Outside check mode, a
\* request that finds no envelope and succeeds reports add with
\* changed=true; the next request of the same data type, the declared
\* recipients being those of the add, succeeds, reports unchanged, writes
\* nothing and returns the secret the add returned.
C4_PresentIdempotent ==
  \A p \in Procs :
    (AtExit(p) /\ Present(p) /\ ~req[p].overwrite /\ ~req[p].check)
      => /\ (~h[p].env0.exists /\ Succeeded(p))
              => (/\ result[p].action = "add" /\ result[p].changed
                  /\ h[p].wrote)
         /\ (/\ last[Slug(p)].kind = "add" /\ ~last[Slug(p)].overwrite
             /\ last[Slug(p)].dtype = req[p].dtype
             /\ h[p].decl0 = h[p].env0.rcpt)
              => (/\ Succeeded(p)
                  /\ result[p].action = "none" /\ ~result[p].changed
                  /\ ~h[p].wrote /\ store[Slug(p)] = h[p].env0
                  /\ result[p].secret = last[Slug(p)].secret)

\* The second request of a json secret returned what the add returned.
C4_Witness ==
  \E p \in Procs :
    /\ AtExit(p) /\ Present(p) /\ ~req[p].overwrite /\ ~req[p].check
    /\ last[Slug(p)].kind = "add" /\ ~last[Slug(p)].overwrite
    /\ req[p].dtype = "json" /\ last[Slug(p)].dtype = "json"
    /\ ~result[p].changed /\ result[p].secret = last[Slug(p)].secret

\* The request of p met an envelope whose recipients are not the declared
\* ones, a declaration exists (when the section begins and at the write) and
\* the payload decodes as the requested data type.
Reconciles(p) ==
  /\ Present(p) /\ ~req[p].overwrite /\ ~req[p].check
  /\ h[p].env0.exists /\ h[p].decl0 # {} /\ h[p].decl0 # h[p].env0.rcpt
  /\ h[p].decl # {}
  /\ Decode(h[p].env0.data, req[p].dtype).exc = "none"

\* C5: recipient reconciliation.  Such a request succeeds, returns the
\* original plaintext, leaves the envelope with the same payload encrypted
\* for exactly the declared recipients, reports the old recipients before
\* and the declared ones after, changed=true, action update, and a warning.
C5_Reconciliation ==
  \A p \in Procs :
    (AtExit(p) /\ Reconciles(p))
      => /\ Succeeded(p)
         /\ result[p].secret = Decode(h[p].env0.data, req[p].dtype).val
         /\ store[Slug(p)] = Env(h[p].decl, h[p].env0.data)
         /\ result[p].before = h[p].env0.rcpt
         /\ result[p].after = h[p].decl
         /\ result[p].changed /\ result[p].action = "update"
         /\ result[p].warning

\* A json envelope for A and B was re-encrypted for A and C.
C5_Witness ==
  \E p \in Procs :
    /\ AtExit(p) /\ Reconciles(p) /\ req[p].dtype = "json"
    /\ h[p].env0.rcpt = {"A", "B"} /\ store[Slug(p)].rcpt = {"A", "C"}

\* C6: when a present request outside check mode has succeeded, the
\* envelope's recipients are the declared recipients as the request last
\* resolved them.
C6_RecipientsDeclared ==
  \A p \in Procs :
    (AtExit(p) /\ Present(p) /\ ~req[p].check /\ Succeeded(p))
      => /\ store[Slug(p)].exists
         /\ h[p].decl # {}
         /\ store[Slug(p)].rcpt = h[p].decl

\* A rotation met an envelope encrypted for other recipients than declared.
C6_Witness ==
  \E p \in Procs :
    /\ AtExit(p) /\ Present(p) /\ ~req[p].check /\ Succeeded(p)
    /\ req[p].overwrite /\ h[p].env0.exists
    /\ h[p].env0.rcpt # store[Slug(p)].rcpt

\* C7: check mode leaves the envelope as it was when the request took the
\* lock: not created, not overwritten, not deleted.
C7_CheckModeFrame ==
  \A p \in Procs :
    (pc[p] \in {"write", "exit"} /\ req[p].check)
      => (pc[p] = "exit" /\ ~h[p].wrote /\ store[Slug(p)] = h[p].env0)

\* Check-mode requests that would have changed the envelope: a removal and
\* an addition.
C7_Witness ==
  /\ \E p \in Procs :
       /\ AtExit(p) /\ req[p].check /\ req[p].state = "absent"
       /\ result[p].action = "remove" /\ store[Slug(p)].exists
  \/ \E p \in Procs :
       /\ AtExit(p) /\ req[p].check /\ Present(p)
       /\ result[p].action = "add" /\ ~store[Slug(p)].exists

\* C8: from every state of the store, a request run in check mode and the
\* same request run for real both succeed or both fail, and report the same
\* changed flag and action when they succeed (stated for the requests whose
\* generator, if called, fails or returns a text).
C8_CheckModePredicts ==
  \A p \in Procs :
    pc[p] = "locked"
      => \A rq \in {r \in Requests : r.slug = Slug(p)},
            run \in {r \in GenRuns : r[3] # "None" \/ r[1] # "user_supplied"} :
           LET gen == GetSecret(run[1], run[2], run[3])
               real == RunMain(store, gpgid, [rq EXCEPT !.check = FALSE], gen)
               dry == RunMain(store, gpgid, [rq EXCEPT !.check = TRUE], gen)
           IN /\ (real.exc = "none") <=> (dry.exc = "none")
              /\ (real.exc = "none" /\ dry.exc = "none")
                   => (/\ real.res.changed = dry.res.changed
                       /\ real.res.action = dry.res.action)

\* C9: the lock is released on every exit path.  A lock file is held by a
\* process inside the locked section of that lock file alone: no process
\* that has left the section, by return or by exception, still holds it.
C9_LockReleased ==
  \A f \in LockFiles :
    lock[f] # NoProc
      => (pc[lock[f]] \in InSection /\ LockFile(Slug(lock[f])) = f)

\* An invocation died of an exception and a later one holds the lock.
C9_Witness ==
  \E p \in Procs :
    /\ pc[p] = "locked" /\ lock[LockFile(Slug(p))] = p
    /\ last[Slug(p)].failed

\* C10: lock acquisition never blocks forever.  A process waiting for a lock
\* whose holder does not release it stops waiting: it times out or fails.
C10_AcquireEnds ==
  \A p \in Procs :
    (/\ pc[p] = "waiting"
     /\ \E q \in Procs : pc[q] = "hung" /\ LockFile(Slug(q)) = LockFile(Slug(p)))
      ~> (pc[p] # "waiting")

\* C11: a recipient mismatch is never fatal.  No request, present or absent,
\* with or without overwrite, in or out of check mode, that meets an
\* envelope whose recipients are not the declared ones ends with the
\* mismatch as its failure.
C11_MismatchNotFatal ==
  \A p \in Procs :
    (/\ AtExit(p) /\ h[p].env0.exists
     /\ h[p].decl0 # {} /\ h[p].decl0 # h[p].env0.rcpt)
      => raised[p] # "RecipientsMismatchError"

\* The generator of p's present request was called and raised.
GenFailed(p) ==
  /\ AtExit(p) /\ Present(p) /\ h[p].gens > 0 /\ raised[p] \in GenErrors

\* C12: no partial mutation on generation failure.  When a present request
\* fails because its generator fails, on the add branch or on the overwrite
\* branch, nothing has been written: the envelope is exactly the one the
\* request found, or still absent.
C12_GenFailureWritesNothing ==
  \A p \in Procs :
    GenFailed(p) => (~h[p].wrote /\ store[Slug(p)] = h[p].env0)

\* Outside check mode the binary of an overwrite failed, and the envelope
\* the request found is intact.
C12_Witness ==
  \E p \in Procs :
    /\ GenFailed(p) /\ raised[p] = "CalledProcessError"
    /\ req[p].overwrite /\ ~req[p].check
    /\ h[p].env0.exists /\ store[Slug(p)] = h[p].env0

\* The present request of p, overwrite set, met an envelope.
Overwrites(p) ==
  AtExit(p) /\ Present(p) /\ req[p].overwrite /\ h[p].env0.exists

\* C13: overwrite precedence.  A present request with overwrite on an
\* existing envelope calls the generator and never reconciles, whether or
\* not the envelope's recipients are the declared ones; when it succeeds it
\* reports update with changed=true and returns the generated secret, and
\* outside check mode the envelope is then that secret, encoded as the data
\* type asks, encrypted for the recipients declared at the write.
C13_OverwritePrecedence ==
  \A p \in Procs :
    Overwrites(p)
      => /\ h[p].gens >= 1 /\ ~result[p].warning
         /\ Succeeded(p)
              => (/\ result[p].action = "update" /\ result[p].changed
                  /\ result[p].secret = h[p].gval)
         /\ (Succeeded(p) /\ ~req[p].check)
              => (/\ h[p].wrote
                  /\ store[Slug(p)]
                       = Env(h[p].decl, Encode(h[p].gval, req[p].dtype)))

\* An overwrite outside check mode met a mismatching envelope holding
\* another secret, and left the new secret encrypted for the declared
\* recipients.
C13_Witness ==
  \E p \in Procs :
    /\ Overwrites(p) /\ Succeeded(p) /\ ~req[p].check
    /\ h[p].decl0 # {} /\ h[p].decl0 # h[p].env0.rcpt
    /\ store[Slug(p)].rcpt = h[p].decl /\ store[Slug(p)].rcpt # h[p].env0.rcpt
    /\ store[Slug(p)].data # h[p].env0.data

\* C14: the reported recipients-after match the disk.  For every operation
\* that wrote the envelope (add, update by overwrite, reconciliation) the
\* recipients-after of the result are the recipients of the envelope as it
\* lies on disk, the lock still held.
C14_AfterMatchesDisk ==
  \A p \in Procs :
    (AtExit(p) /\ Succeeded(p) /\ h[p].wrote)
      => (/\ store[Slug(p)].exists
          /\ result[p].after = store[Slug(p)].rcpt)

\* An overwrite re-encrypted a mismatching envelope: recipients-after are
\* those on disk and no longer recipients-before.
C14_Witness ==
  \E p \in Procs :
    /\ AtExit(p) /\ Succeeded(p) /\ h[p].wrote /\ req[p].overwrite
    /\ result[p].action = "update"
    /\ result[p].after = store[Slug(p)].rcpt
    /\ result[p].after # result[p].before

\* The absent request of p met no envelope.
AbsentOnMissing(p) ==
  AtExit(p) /\ req[p].state = "absent" /\ ~h[p].env0.exists

\* C15: absent on a missing envelope is a no-op.  In or out of check mode
\* the request succeeds, reports changed=false with no action and empty
\* recipients before and after, and leaves no envelope behind; a repetition
\* meets the same store and reports the same.
C15_AbsentMissingNoop ==
  \A p \in Procs :
    AbsentOnMissing(p)
      => /\ Succeeded(p)
         /\ ~result[p].changed /\ result[p].action = "none"
         /\ result[p].before = {} /\ result[p].after = {}
         /\ store[Slug(p)] = NoEnv

\* An absent request in check mode repeats an absent no-op on the slug and
\* reports unchanged again.
C15_Witness ==
  \E p \in Procs :
    /\ AbsentOnMissing(p) /\ req[p].check /\ last[Slug(p)].kind = "noop"
    /\ Succeeded(p) /\ ~result[p].changed

\* The present request of p has called the user_supplied generator.
UserSupplied(p) ==
  /\ pc[p] \in {"write", "exit"} /\ Present(p)
  /\ h[p].gens > 0 /\ h[p].gtype = "user_supplied"

\* C16: user_supplied needs a value.  A present request that needs a new
\* secret, secret_type user_supplied and no value given, fails with a
\* missing-value error and writes no envelope; with a value given, a
\* request that succeeds returns that value verbatim.
C16_UserSuppliedNeedsValue ==
  \A p \in Procs :
    UserSupplied(p)
      => IF h[p].gval = NoneSecret
         THEN /\ raised[p] = "MissingValue"
              /\ ~h[p].wrote /\ store[Slug(p)] = h[p].env0
         ELSE Succeeded(p) => result[p].secret = h[p].gval

\* No .gpg-id declares recipients for the slug of p's present request, from
\* the beginning of its locked section to its end.
Undeclared(p) ==
  AtExit(p) /\ Present(p) /\ h[p].decl0 = {} /\ h[p].decl = {}

\* C17: the declared recipients are resolved first.  A present request on a
\* slug with no declaration in any ancestor fails with NoRecipientsFound,
\* whatever overwrite, check mode and the existence of the envelope, and it
\* fails before the generator is called and before anything is written.
C17_RecipientsResolvedFirst ==
  \A p \in Procs :
    Undeclared(p)
      => /\ raised[p] = "NoRecipientsFound"
         /\ h[p].gens = 0
         /\ ~h[p].wrote /\ store[Slug(p)] = h[p].env0

\* C18: the reported recipients-before reflect the envelope the operation
\* found.  For every operation that succeeds, in every branch, the
\* recipients-before of the result are the recipients of the envelope as it
\* was when the lock was taken, and they are empty exactly when there was
\* no envelope.
C18_BeforeIsPreOperation ==
  \A p \in Procs :
    (AtExit(p) /\ Succeeded(p))
      => /\ result[p].before = h[p].env0.rcpt
         /\ (result[p].before = {}) <=> ~h[p].env0.exists

\* C19: the returned secret is the stored secret.  After a present request
\* outside check mode that succeeds, in every branch (unchanged, add,
\* overwrite, reconciliation), the envelope exists and decrypting and
\* decoding it, as the requested data type, gives the secret of the result.
C19_ReturnedIsStored ==
  \A p \in Procs :
    (AtExit(p) /\ Present(p) /\ ~req[p].check /\ Succeeded(p))
      => /\ store[Slug(p)].exists
         /\ Decode(store[Slug(p)].data, req[p].dtype) = Ok(result[p].secret)

\* A json secret was written, by add, overwrite or reconciliation, and the
\* envelope decodes to the secret returned.
C19_Witness ==
  \E p \in Procs :
    /\ AtExit(p) /\ Present(p) /\ ~req[p].check /\ Succeeded(p)
    /\ h[p].wrote /\ req[p].dtype = "json"
    /\ store[Slug(p)].data # result[p].secret
    /\ Decode(store[Slug(p)].data, "json") = Ok(result[p].secret)

\* The request of p needs a new secret: present, and no envelope or
\* overwrite.
NeedsSecret(p) ==
  Present(p) /\ (~h[p].env0.exists \/ req[p].overwrite)

\* C20: the generator is called at most once per request, and only when a
\* new secret is needed.  It runs exactly when the request is present and
\* there is no envelope or overwrite is set; never for absent, for an
\* unchanged present, or for a reconciliation.
C20_GeneratorOnce ==
  \A p \in Procs :
    AtExit(p)
      => /\ h[p].gens <= 1
         /\ (h[p].gens >= 1) <=> NeedsSecret(p)

=============================================================================
